---- MODULE Spec2Model ----
(***************************************************************************)
(* Cat Chaos (src/code.py): a gesture game for a microcontroller with a    *)
(* rotary encoder (clk, dt, sw), a 3-axis accelerometer, and a top-3       *)
(* leaderboard kept in highscores.json.                                    *)
(*                                                                         *)
(* Numbers.  Pin levels are 0 (low) and 1 (high).  Time is in              *)
(* microseconds.  The filtered accelerations fx, fy, fz are fixed-point:   *)
(* the stored integer is the value times FilterScale (finite precision,    *)
(* rounded down).  A leaderboard entry is a record [name, score]; a name   *)
(* is a sequence of one-letter strings.                                    *)
(*                                                                         *)
(* Specifications.  Spec is the whole program (lines 597-603).  The        *)
(* others run one operation from the module's initial state, called any    *)
(* number of times with any arguments of its input sets:                   *)
(*   SpecDetect  detect_action, all pin pairs, moving accelerometer        *)
(*   SpecInput   detect_action, choose_difficulty, enter_initials, device  *)
(*               at rest; SpecInputLive adds that the clock advances       *)
(*   SpecPlay    play_game, all pin pairs, device at rest                  *)
(*   SpecBoard   end_screen, from a missing or unreadable file or any      *)
(*               stored sorted list of at most 3 entries                   *)
(*   SpecSeq     generate_sequence, any level, any random indices          *)
(*   SpecMotion  the whole program, the device shaken at the first reads   *)
(*   SpecWaits   detect_action, choose_difficulty, end_screen, device at   *)
(*               rest; SpecWaitsLive adds that the program runs on         *)
(*   SpecTwin    detect_action run twice side by side on inputs that agree *)
(*               on what the gesture's test reads                          *)
(*   SpecStore   end_screen again and again, from a store that cannot be   *)
(*               read, which may be lost again between two calls           *)
(*   SpecNames   end_screen once, from a store that cannot be read, the    *)
(*               knob turned more than once around the alphabet            *)
(***************************************************************************)
EXTENDS Integers, Sequences, FiniteSets, TLC

(* ------------------------------ bounds -------------------------------- *)
\* the clock is read in steps of TickUs microseconds
TickUs == 1000000
\* the clock advances by at most MaxAdv ticks between two readings
MaxAdv == 1
\* |encoder_value| is capped: a sample that would take it further is not offered
MaxEnc == 3
\* fixed-point scale of the filtered accelerations
FilterScale == 625
\* the random source of SpecPlay steps through ACTIONS by 0..MaxStride
MaxStride == 1
\* end_screen calls per behaviour of SpecBoard
MaxGames == 1
\* ticks the knob is turned per letter in SpecBoard
MaxTurn == 1
\* accelerometer reads per behaviour that find the device or the filter away from rest
MaxMoves == 3
\* end_screen calls per behaviour of SpecStore
MaxLoads == 2
\* draws of the random source of SpecSeq that are free; the later draws repeat them
MaxFree == 3

(* ------------------------- program constants -------------------------- *)
alphaTenths == 2
RotateThreshold == 2
ShakeThreshold == 15
FlipThreshold == -5
NumLevels == 10
LevelBonus == 5
DecayPercent == 92
KeepTop == 3

\* ACTIONS (the word is reserved in TLA+)
Actions == <<"PAW", "TAIL_LEFT", "TAIL_RIGHT", "SHAKE", "FLIP">>
difficulties == <<"EASY", "MEDIUM", "HARD">>

Abs(n) == IF n < 0 THEN -n ELSE n

VARIABLES
    pc,             \* where the program is
    encoder_value,  \* cumulative rotation count
    last_state,     \* <<clk, dt>> retained by update_encoder
    fx, fy, fz,     \* filtered accelerations (times FilterScale)
    xyz,            \* history: the raw sample <<x, y, z>> of the last read_accel
    seen_lo,        \* history: per axis, the least raw sample read so far, and 0
    seen_hi,        \* history: per axis, the greatest raw sample read so far, and 0
    sw,             \* the level last read from the button pin
    action,         \* detect_action: the gesture waited for
    time_limit,     \* detect_action: the deadline, microseconds
    elapsed,        \* detect_action: time.monotonic() - start at the last reading
    result,         \* detect_action: the value returned
    polled,         \* history: this invocation has sampled the inputs at least once
    ticks,          \* history: net ticks decoded since the counter's last reset point
    moves,          \* history: accelerometer reads away from rest so far
    twin,           \* a second run of detect_action, compared with the first
    diff,           \* the difficulty chosen
    name, pos,      \* enter_initials: the letters and the position being chosen
    level, seq, i,  \* play_game: the level, its sequence, the index of the step
    score, win,     \* play_game: the score; the pair returned, end_screen's arguments
    steps, cleared, \* history: gestures and levels completed in this playthrough
    file,           \* highscores.json: [state, entries]; the states are "missing",
                    \* "corrupt" (not JSON), "other" (JSON, not a list of
                    \* entries: entries is <<>>) and "list"
    scores,         \* end_screen: the list loaded
    games,          \* history: playthroughs finished
    defaults,       \* the module-level list DEFAULT_SCORES
    aliased         \* scores is the list object DEFAULT_SCORES itself

encVars == <<encoder_value, last_state>>
accVars == <<fx, fy, fz, xyz, seen_lo, seen_hi>>
detVars == <<action, time_limit, elapsed, result, polled>>
menuVars == <<diff, name, pos>>
playVars == <<level, seq, i, score, win, steps, cleared>>
boardVars == <<file, scores, games, defaults, aliased>>
vars == <<pc, encoder_value, last_state, fx, fy, fz, xyz, seen_lo, seen_hi, sw,
          action, time_limit, elapsed, result, polled, ticks, moves, twin, diff,
          name, pos, level, seq, i, score, win, steps, cleared, file, scores,
          games, defaults, aliased>>

(* --------------------------- update_encoder --------------------------- *)
\* faulty variant: counts every change of the pair, not only clock rising edges
EncoderDeltaAnyEdge(ls, st) ==
    IF st # ls THEN (IF st[2] = 0 THEN 1 ELSE -1) ELSE 0

\* the change of encoder_value for the retained pair ls and the sampled pair st
EncoderDelta(ls, st) ==
    IF st # ls
    THEN IF ls[1] = 0 /\ st[1] = 1
         THEN (IF st[2] = 0 THEN 1 ELSE -1)
         ELSE 0
    ELSE 0

NextLastState(ls, st) == IF st # ls THEN st ELSE ls

\* update_encoder() with the pins reading st; cap: |encoder_value| <= MaxEnc
update_encoder(st) ==
    /\ Abs(encoder_value + EncoderDelta(last_state, st)) <= MaxEnc
    /\ encoder_value' = encoder_value + EncoderDelta(last_state, st)
    /\ last_state' = NextLastState(last_state, st)

(* ----------------------------- read_accel ----------------------------- *)
\* faulty variant: the new sample is not weighted
EmaSum(raw, f) == (10 * raw * FilterScale + (10 - alphaTenths) * f) \div 10

\* faulty variant: the weights the wrong way round
EmaSwapped(raw, f) == ((10 - alphaTenths) * raw * FilterScale + alphaTenths * f) \div 10

\* filtered = alpha*raw + (1-alpha)*filtered, alpha = alphaTenths/10
Ema(raw, f) == (alphaTenths * raw * FilterScale + (10 - alphaTenths) * f) \div 10

Min(a, b) == IF a < b THEN a ELSE b
Max(a, b) == IF a > b THEN a ELSE b

read_accel(raw) ==
    /\ fx' = Ema(raw[1], fx)
    /\ fy' = Ema(raw[2], fy)
    /\ fz' = Ema(raw[3], fz)
    /\ xyz' = raw
    /\ seen_lo' = [k \in 1..3 |-> Min(seen_lo[k], raw[k])]
    /\ seen_hi' = [k \in 1..3 |-> Max(seen_hi[k], raw[k])]

(* ---------------------------- detect_action --------------------------- *)
\* faulty variant: the counter is left as it was
DetectResetKept(ev) == ev

\* encoder_value = 0 at the start of detect_action
DetectReset(ev) == 0

\* faulty variant: the tests do not look at the gesture waited for
GestureSeenAny(act, ev, x, z, b) ==
    \/ b = 0
    \/ ev < -RotateThreshold
    \/ ev > RotateThreshold
    \/ Abs(x) > ShakeThreshold * FilterScale
    \/ z < FlipThreshold * FilterScale

\* faulty variant: the rotation tests are inclusive
GestureSeenInclusive(act, ev, x, z, b) ==
    \/ act = "PAW" /\ b = 0
    \/ act = "TAIL_LEFT" /\ ev <= -RotateThreshold
    \/ act = "TAIL_RIGHT" /\ ev >= RotateThreshold
    \/ act = "SHAKE" /\ Abs(x) > ShakeThreshold * FilterScale
    \/ act = "FLIP" /\ z < FlipThreshold * FilterScale

\* the five tests of the loop body: which one applies is fixed by act
GestureSeen(act, ev, x, z, b) ==
    \/ act = "PAW" /\ b = 0
    \/ act = "TAIL_LEFT" /\ ev < -RotateThreshold
    \/ act = "TAIL_RIGHT" /\ ev > RotateThreshold
    \/ act = "SHAKE" /\ Abs(x) > ShakeThreshold * FilterScale
    \/ act = "FLIP" /\ z < FlipThreshold * FilterScale

\* faulty variant: the difference is taken the wrong way round (start - now)
LoopContinuesReversed(e, limit) == -e < limit

\* while time.monotonic() - start < time_limit
LoopContinues(e, limit) == e < limit

\* faulty variant: the filter starts again from 0 at each attempt
FilterZeroed(f) == 0

\* detect_action assigns nothing to fx, fy, fz before its loop
FilterAtStart(f) == f

\* detect_action(act, limit) up to the first loop test
DetectEnter(act, limit) ==
    /\ action' = act
    /\ time_limit' = limit
    /\ encoder_value' = DetectReset(encoder_value)
    /\ elapsed' = 0
    /\ result' = "none"
    /\ polled' = FALSE
    /\ ticks' = 0
    /\ pc' = "detect_test"
    /\ fx' = FilterAtStart(fx) /\ fy' = FilterAtStart(fy) /\ fz' = FilterAtStart(fz)
    /\ UNCHANGED <<last_state, xyz, seen_lo, seen_hi, sw, moves>>

\* the loop test: the clock has advanced by adv ticks since its last reading
DetectTest(adv) ==
    /\ pc = "detect_test"
    /\ elapsed' = elapsed + adv * TickUs
    /\ IF LoopContinues(elapsed', time_limit)
       THEN pc' = "detect_body" /\ result' = result
       ELSE pc' = "detect_ret" /\ result' = FALSE
    /\ UNCHANGED <<encVars, accVars, sw, action, time_limit, polled, ticks, moves>>

\* the loop body: the pins read st, the accelerometer raw, the button b
\* (the button is read only when the gesture is PAW)
DetectPoll(st, raw, b) ==
    /\ pc = "detect_body"
    /\ update_encoder(st)
    /\ read_accel(raw)
    /\ sw' = IF action = "PAW" THEN b ELSE sw
    /\ IF GestureSeen(action, encoder_value', fx', fz', b)
       THEN pc' = "detect_ret" /\ result' = TRUE
       ELSE pc' = "detect_test" /\ result' = result
    /\ polled' = TRUE
    /\ ticks' = ticks + (encoder_value' - encoder_value)
    /\ moves' = IF raw = <<0, 0, 0>> /\ fx = 0 /\ fy = 0 /\ fz = 0 THEN moves ELSE moves + 1
    /\ UNCHANGED <<action, time_limit, elapsed>>

(* -------------------------- choose_difficulty ------------------------- *)
\* faulty variant: the counter is left as it was
ChooseResetKept(ev) == ev

\* encoder_value = 0 at the start of choose_difficulty
ChooseReset(ev) == 0

ChooseEnter ==
    /\ encoder_value' = ChooseReset(encoder_value)
    /\ ticks' = 0
    /\ pc' = "choose_loop"
    /\ UNCHANGED <<last_state, accVars, sw, detVars, moves, twin, menuVars>>

\* one turn of the menu loop: the pins read st, the button b
ChooseIter(st, b) ==
    /\ pc = "choose_loop"
    /\ update_encoder(st)
    /\ sw' = b
    /\ ticks' = ticks + (encoder_value' - encoder_value)
    /\ IF b = 0
       THEN /\ diff' = difficulties[(Abs(encoder_value') % 3) + 1]
            /\ pc' = "choose_ret"
       ELSE UNCHANGED <<diff, pc>>
    /\ UNCHANGED <<accVars, detVars, moves, twin, name, pos>>

(* --------------------------- enter_initials --------------------------- *)
LETTERS == <<"A", "B", "C", "D", "E", "F", "G", "H", "I", "J", "K", "L", "M",
             "N", "O", "P", "Q", "R", "S", "T", "U", "V", "W", "X", "Y", "Z">>

\* faulty variant: the counter is left as it was after a letter
LetterResetKept(ev) == ev

\* encoder_value = 0 at the start and after each letter
LetterReset(ev) == 0

\* faulty variant: one press more is waited for
AllEnteredLate(p) == p > 3

\* if pos >= 3
AllEntered(p) == p >= 3

InitialsEnter ==
    /\ name' = <<"A", "A", "A">>
    /\ pos' = 0
    /\ encoder_value' = LetterReset(encoder_value)
    /\ ticks' = 0
    /\ pc' = "initials_loop"
    /\ UNCHANGED <<last_state, accVars, sw, detVars, moves, twin, diff>>

\* one turn of the loop: the pins read st, the button b
InitialsIter(st, b) ==
    /\ pc = "initials_loop"
    /\ last_state' = NextLastState(last_state, st)
    /\ LET ev == encoder_value + EncoderDelta(last_state, st)
           idx == Abs(ev) % Len(LETTERS)
       IN  /\ name' = [name EXCEPT ![pos + 1] = LETTERS[idx + 1]]
           /\ sw' = b
           /\ IF b = 0
              THEN /\ pos' = pos + 1
                   /\ encoder_value' = LetterReset(ev)
                   /\ ticks' = 0
                   /\ pc' = IF AllEntered(pos + 1) THEN "initials_ret" ELSE "initials_loop"
              ELSE /\ encoder_value' = ev
                   /\ ticks' = ticks + EncoderDelta(last_state, st)
                   /\ UNCHANGED <<pos, pc>>
    /\ UNCHANGED <<accVars, detVars, moves, twin, diff>>

(* ----------------------------- time limits ---------------------------- *)
\* base time of a difficulty, microseconds
Base(d) == IF d = "EASY" THEN 2000000 ELSE IF d = "MEDIUM" THEN 1500000 ELSE 1000000

\* faulty variant: 8% of the base less at each level
TimeLimitLinear(d, lvl) == (Base(d) * (100 - (100 - DecayPercent) * lvl)) \div 100

\* base * 0.92 ** lvl, microseconds, rounded down at each factor
RECURSIVE TimeLimit(_, _)
TimeLimit(d, lvl) ==
    IF lvl = 0 THEN Base(d) ELSE (TimeLimit(d, lvl - 1) * DecayPercent) \div 100

(* -------------------------- generate_sequence ------------------------- *)
\* faulty variant: range(lvl)
generate_sequenceShort(lvl, rnd) == [k \in 1..lvl |-> Actions[rnd[k] + 1]]

\* [random.choice(ACTIONS) for _ in range(lvl + 1)]; rnd[k] is the index the
\* random source gives at the k-th draw
generate_sequence(lvl, rnd) == [k \in 1..(lvl + 1) |-> Actions[rnd[k] + 1]]

(* ------------------------------ play_game ----------------------------- *)
\* faulty variant: the step is counted twice
StepScoreTwice(s) == s + 2

\* score += 1
StepScore(s) == s + 1

\* faulty variant: no bonus
LevelScoreNone(s) == s

\* score += 5
LevelScore(s) == s + LevelBonus

\* faulty variant: range(1, 10)
LevelsDoneEarly(lvl) == lvl >= NumLevels

\* for level in range(1, 11): the loop is over
LevelsDone(lvl) == lvl > NumLevels

\* play_game(d) up to the head of the level loop
PlayEnter(d) ==
    /\ diff' = d
    /\ score' = 0
    /\ level' = 1
    /\ seq' = <<>> /\ i' = 0 /\ win' = FALSE
    /\ steps' = 0 /\ cleared' = 0
    /\ pc' = "play_level"
    /\ UNCHANGED <<encVars, accVars, sw, detVars, ticks, moves, twin, name, pos>>

\* the head of the level loop: the next sequence, or return (score, True)
PlayLevel(rnd) ==
    /\ pc = "play_level"
    /\ IF LevelsDone(level)
       THEN /\ win' = TRUE
            /\ pc' = "play_ret"
            /\ UNCHANGED <<seq, i>>
       ELSE /\ seq' = generate_sequence(level, rnd)
            /\ i' = 0
            /\ pc' = "play_step"
            /\ UNCHANGED win
    /\ UNCHANGED <<encVars, accVars, sw, detVars, ticks, moves, twin, menuVars, level,
                   score, steps, cleared>>

\* the head of the step loop: the next gesture is waited for, or the level is
\* complete
PlayStep ==
    /\ pc = "play_step"
    /\ IF i < Len(seq)
       THEN /\ DetectEnter(seq[i + 1], TimeLimit(diff, level))
            /\ UNCHANGED <<level, score, cleared>>
       ELSE /\ score' = LevelScore(score)
            /\ cleared' = cleared + 1
            /\ level' = level + 1
            /\ pc' = "play_level"
            /\ UNCHANGED <<encVars, accVars, sw, detVars, ticks, moves>>
    /\ UNCHANGED <<menuVars, seq, i, win, steps, twin>>

\* detect_action has returned: return (score, False), or count the step
PlayAfterDetect ==
    /\ pc = "detect_ret"
    /\ IF result = FALSE
       THEN /\ win' = FALSE
            /\ pc' = "play_ret"
            /\ UNCHANGED <<score, i, steps>>
       ELSE /\ score' = StepScore(score)
            /\ steps' = steps + 1
            /\ i' = i + 1
            /\ pc' = "play_step"
            /\ UNCHANGED win
    /\ action' = "PAW" /\ time_limit' = 0 /\ elapsed' = 0 /\ result' = "none"
    /\ polled' = FALSE
    /\ UNCHANGED <<encVars, accVars, sw, ticks, moves, twin, menuVars, level, seq, cleared>>

(* ----------------------------- high scores ---------------------------- *)
Entry(n, sc) == [name |-> n, score |-> sc]

DEFAULT_SCORES ==
    << Entry(<<"A", "A", "A">>, 0), Entry(<<"B", "B", "B">>, 0),
       Entry(<<"C", "C", "C">>, 0) >>

\* faulty variant: return DEFAULT_SCORES, the list itself
FallbackSharedYes == TRUE

\* return DEFAULT_SCORES.copy(): the list returned on failure is a new list,
\* not the list object DEFAULT_SCORES
FallbackShared == FALSE

\* load_highscores(): what json.load gives, the defaults (dflt) when open or
\* json.load raises
load_highscores(f, dflt) == IF f.state \in {"list", "other"} THEN f.entries ELSE dflt

\* save_highscores(list): the file holds the list
save_highscores(list) == [state |-> "list", entries |-> list]

\* faulty variant: the new entry goes before the entries of equal score
InsertBeforeTies(sorted, e) ==
    LET n == Cardinality({k \in 1..Len(sorted) : sorted[k].score > e.score})
    IN  SubSeq(sorted, 1, n) \o <<e>> \o SubSeq(sorted, n + 1, Len(sorted))

\* one step of the stable sort: e goes after the entries of score >= e.score
InsertStable(sorted, e) ==
    LET n == Cardinality({k \in 1..Len(sorted) : sorted[k].score >= e.score})
    IN  SubSeq(sorted, 1, n) \o <<e>> \o SubSeq(sorted, n + 1, Len(sorted))

\* sorted(list, key=lambda x: x["score"], reverse=True): stable, entries of
\* equal score keep their order
RECURSIVE SortedByScore(_)
SortedByScore(list) ==
    IF list = <<>> THEN <<>>
    ELSE InsertStable(SortedByScore(SubSeq(list, 1, Len(list) - 1)), list[Len(list)])

\* faulty variant: the slice is forgotten
TopAll(list) == list

\* [:3]
Top(list) == SubSeq(list, 1, IF Len(list) < KeepTop THEN Len(list) ELSE KeepTop)

\* faulty variant: a tie with the last entry qualifies
BeatsLastOrTies(sc, list) == sc >= list[Len(list)].score

\* score > scores[-1]["score"] (the list is not empty)
BeatsLast(sc, list) == sc > list[Len(list)].score

(* ------------------------------ end_screen ---------------------------- *)
\* end_screen(sc, w) up to the wait for the button
EndEnter(sc, w) ==
    /\ score' = sc /\ win' = w
    /\ pc' = "end_wait"
    /\ UNCHANGED <<encVars, accVars, sw, detVars, ticks, moves, twin, menuVars, level, seq,
                   i, steps, cleared, boardVars>>

\* while True: if not sw.value: break; then the list is loaded and the score
\* compared with the last entry: IndexError on an empty list
EndWait(b) ==
    /\ pc = "end_wait"
    /\ sw' = b
    /\ IF b = 1
       THEN UNCHANGED <<pc, scores, aliased, encoder_value, name, pos, ticks>>
       ELSE /\ scores' = load_highscores(file, defaults)
            /\ aliased' = (file.state \in {"missing", "corrupt"} /\ FallbackShared)
            /\ IF scores' = <<>>
               THEN /\ pc' = "crashed"
                    /\ UNCHANGED <<encoder_value, name, pos, ticks>>
               ELSE IF BeatsLast(score, scores')
                    THEN /\ name' = <<"A", "A", "A">>
                         /\ pos' = 0
                         /\ encoder_value' = LetterReset(encoder_value)
                         /\ ticks' = 0
                         /\ pc' = "initials_loop"
                    ELSE /\ pc' = "show_scores"
                         /\ UNCHANGED <<encoder_value, name, pos, ticks>>
    /\ UNCHANGED <<last_state, accVars, detVars, moves, twin, diff, playVars, file, games,
                   defaults>>

\* enter_initials has returned: append (to the list object scores names),
\* sort into a new list, keep the top 3, save
EndInsert ==
    /\ pc = "initials_ret"
    /\ defaults' = IF aliased THEN Append(defaults, Entry(name, score)) ELSE defaults
    /\ scores' = Top(SortedByScore(Append(scores, Entry(name, score))))
    /\ aliased' = FALSE
    /\ file' = save_highscores(scores')
    /\ pc' = "show_scores"
    /\ UNCHANGED <<encVars, accVars, sw, detVars, ticks, moves, twin, menuVars, playVars,
                   games>>

\* faulty variant: the screen is left whether the button is pressed or not
ShowScoresOnce(b) ==
    /\ pc = "show_scores"
    /\ sw' = b
    /\ pc' = "end_ret"
    /\ UNCHANGED <<encVars, accVars, detVars, ticks, moves, twin, menuVars, playVars,
                   boardVars>>

\* show_highscores(scores): wait for the button, then end_screen returns
ShowScores(b) ==
    /\ pc = "show_scores"
    /\ sw' = b
    /\ pc' = IF b = 0 THEN "end_ret" ELSE pc
    /\ UNCHANGED <<encVars, accVars, detVars, ticks, moves, twin, menuVars, playVars,
                   boardVars>>

(* --------------------------- initial state ---------------------------- *)
\* module level: lines 127-129 read the pins, line 166 zeroes the filter
InitPins ==
    /\ encoder_value = 0
    /\ last_state \in {0, 1} \X {0, 1}
    /\ fx = 0 /\ fy = 0 /\ fz = 0
    /\ xyz = <<0, 0, 0>> /\ seen_lo = <<0, 0, 0>> /\ seen_hi = <<0, 0, 0>>
    /\ sw = 1

InitDetect ==
    /\ action = "PAW" /\ time_limit = 0 /\ elapsed = 0 /\ result = "none"
    /\ polled = FALSE /\ ticks = 0 /\ moves = 0
    /\ twin = [pc |-> "idle", encoder_value |-> 0, last_state |-> <<0, 0>>,
               fx |-> 0, fy |-> 0, fz |-> 0, result |-> "none"]

InitMenu == diff = "EASY" /\ name = <<"A", "A", "A">> /\ pos = 0

InitPlay ==
    /\ level = 0 /\ seq = <<>> /\ i = 0 /\ score = 0 /\ win = FALSE
    /\ steps = 0 /\ cleared = 0

InitBoard ==
    /\ file = [state |-> "missing", entries |-> <<>>]
    /\ scores = <<>> /\ games = 0
    /\ defaults = DEFAULT_SCORES /\ aliased = FALSE

(* --------------------- detect_action, called alone -------------------- *)
QuadIn == {0, 1} \X {0, 1}
AccelRest == {<<0, 0, 0>>}
AccelIn == {<<0, 0, 0>>, <<80, 0, 0>>, <<-80, 0, 0>>, <<0, 0, -30>>, <<20, 10, 10>>}
LimitsIn == {TimeLimit("EASY", 1), TimeLimit("HARD", NumLevels)}

InitInput ==
    /\ pc = "idle" /\ InitPins /\ InitDetect /\ InitMenu /\ InitPlay /\ InitBoard

\* on return the locals of the operation are gone
LocalsGone ==
    /\ action' = "PAW" /\ time_limit' = 0 /\ elapsed' = 0 /\ result' = "none"
    /\ polled' = FALSE
    /\ diff' = "EASY" /\ name' = <<"A", "A", "A">> /\ pos' = 0

CallDetect ==
    /\ pc = "idle"
    /\ \E act \in {Actions[k] : k \in 1..Len(Actions)}, limit \in LimitsIn :
          DetectEnter(act, limit)
    /\ UNCHANGED <<menuVars, playVars, boardVars, twin>>

AloneTest ==
    /\ \E adv \in 0..MaxAdv : DetectTest(adv)
    /\ UNCHANGED <<menuVars, playVars, boardVars, twin>>

AlonePoll ==
    /\ \E st \in QuadIn, raw \in AccelIn, b \in {0, 1} : DetectPoll(st, raw, b)
    /\ moves' <= MaxMoves
    /\ UNCHANGED <<menuVars, playVars, boardVars, twin>>

AloneReturn ==
    /\ pc = "detect_ret"
    /\ pc' = "idle"
    /\ LocalsGone
    /\ UNCHANGED <<encVars, accVars, sw, ticks, moves, twin, playVars, boardVars>>

NextDetect == CallDetect \/ AloneTest \/ AlonePoll \/ AloneReturn

SpecDetect == InitInput /\ [][NextDetect]_vars

(* C3: one update_encoder changes the counter by +1 exactly when the sampled
   pair differs from the retained pair and clock went low->high with data low,
   by -1 exactly when clock went low->high with data high, and by 0 in every
   other case (the sampled pair is the pair retained after the update). *)
C3_EncoderDelta ==
    [][pc = "detect_body" =>
        LET d == encoder_value' - encoder_value
            rising == last_state[1] = 0 /\ last_state'[1] = 1
        IN  /\ d \in {-1, 0, 1}
            /\ d = 1 <=> (last_state' # last_state /\ rising /\ last_state'[2] = 0)
            /\ d = -1 <=> (rising /\ last_state'[2] = 1)
            /\ (~rising) => d = 0]_vars

C3_Witness == pc = "detect_test" /\ polled /\ encoder_value = -2

\* the gesture's test as the claim words it, on the values the last poll left
C4_Holds ==
    CASE action = "PAW" -> sw = 0
      [] action = "TAIL_LEFT" -> encoder_value < -2
      [] action = "TAIL_RIGHT" -> encoder_value > 2
      [] action = "SHAKE" -> (fx > 15 * FilterScale \/ fx < -15 * FilterScale)
      [] action = "FLIP" -> fz < -5 * FilterScale

(* C4: detect_action returns success at the first poll at which the gesture's
   test holds, that poll following a loop test with elapsed < deadline, and
   polls no more after it; it returns failure exactly when the deadline has
   elapsed and the test was false at every poll. *)
C4_FirstMatch ==
    /\ [](/\ (pc \in {"detect_test", "detect_body"} /\ polled) => ~C4_Holds
          /\ pc = "detect_ret" => result \in BOOLEAN
          /\ (pc = "detect_ret" /\ result = TRUE) =>
                (polled /\ C4_Holds /\ elapsed < time_limit)
          /\ (pc = "detect_ret" /\ result = FALSE) =>
                (elapsed >= time_limit /\ (polled => ~C4_Holds)))
    /\ [][pc = "detect_ret" => pc' \notin {"detect_test", "detect_body"}]_vars

C4_Witness ==
    pc = "detect_ret" /\ result = TRUE /\ action = "SHAKE" /\ elapsed > 0

(* ------------- the three operations that read the encoder -------------- *)
InputTest ==
    /\ \E adv \in 0..MaxAdv : DetectTest(adv)
    /\ UNCHANGED <<menuVars, playVars, boardVars, twin>>

InputPoll ==
    /\ \E st \in QuadIn, raw \in AccelRest, b \in {0, 1} : DetectPoll(st, raw, b)
    /\ UNCHANGED <<menuVars, playVars, boardVars, twin>>

CallChoose ==
    /\ pc = "idle"
    /\ ChooseEnter
    /\ UNCHANGED <<playVars, boardVars>>

InputChoose ==
    /\ \E st \in QuadIn, b \in {0, 1} : ChooseIter(st, b)
    /\ UNCHANGED <<playVars, boardVars>>

CallInitials ==
    /\ pc = "idle"
    /\ InitialsEnter
    /\ UNCHANGED <<playVars, boardVars>>

InputInitials ==
    /\ \E st \in QuadIn, b \in {0, 1} : InitialsIter(st, b)
    /\ Abs(encoder_value + EncoderDelta(last_state, last_state')) <= MaxEnc
    /\ UNCHANGED <<playVars, boardVars>>

InputReturn ==
    /\ pc \in {"detect_ret", "choose_ret", "initials_ret"}
    /\ pc' = "idle"
    /\ LocalsGone
    /\ UNCHANGED <<encVars, accVars, sw, ticks, moves, twin, playVars, boardVars>>

NextInput ==
    \/ CallDetect \/ InputTest \/ InputPoll
    \/ CallChoose \/ InputChoose
    \/ CallInitials \/ InputInitials
    \/ InputReturn

SpecInput == InitInput /\ [][NextInput]_vars

(* ----------------------- play_game, called alone ---------------------- *)
\* the random source: the index of the k-th draw is seed + (k-1)*stride mod 5
RandomRuns ==
    {[k \in 1..(NumLevels + 1) |-> (seed + (k - 1) * stride) % Len(Actions)] :
        seed \in 0..(Len(Actions) - 1), stride \in 0..MaxStride}

DiffIn == {difficulties[k] : k \in 1..Len(difficulties)}

CallPlay ==
    /\ pc = "idle"
    /\ \E d \in DiffIn : PlayEnter(d)
    /\ UNCHANGED boardVars

GameLevel ==
    /\ \E rnd \in RandomRuns : PlayLevel(rnd)
    /\ UNCHANGED boardVars

GameStep == PlayStep /\ UNCHANGED boardVars

GameTest ==
    /\ \E adv \in 0..MaxAdv : DetectTest(adv)
    /\ UNCHANGED <<menuVars, playVars, boardVars, twin>>

GamePoll ==
    /\ \E st \in QuadIn, raw \in AccelRest, b \in {0, 1} : DetectPoll(st, raw, b)
    /\ UNCHANGED <<menuVars, playVars, boardVars, twin>>

GameAfterDetect == PlayAfterDetect /\ UNCHANGED boardVars

\* the caller takes (score, win); the locals are gone
GameReturn ==
    /\ pc = "play_ret"
    /\ pc' = "idle"
    /\ level' = 0 /\ seq' = <<>> /\ i' = 0 /\ score' = 0 /\ win' = FALSE
    /\ steps' = 0 /\ cleared' = 0
    /\ diff' = "EASY"
    /\ UNCHANGED <<encVars, accVars, sw, detVars, ticks, moves, twin, name, pos, boardVars>>

NextPlay ==
    \/ CallPlay \/ GameLevel \/ GameStep \/ GameTest \/ GamePoll
    \/ GameAfterDetect \/ GameReturn

SpecPlay == InitInput /\ [][NextPlay]_vars

\* the score of levels 1..L-1 all completed: level l gives (l + 1) + 5
RECURSIVE C1_PriorLevels(_)
C1_PriorLevels(L) == IF L <= 1 THEN 0 ELSE C1_PriorLevels(L - 1) + (L - 1) + 1 + 5

(* C1: a recognizer failure at level L, step S (i = S - 1 steps of the level
   done) ends the playthrough at once: play_game returns won = false with
   score = sum over l < L of ((l + 1) + 5), plus S - 1, with no bonus for
   level L, and no recognizer invocation follows in that playthrough. *)
C1_FailureScore ==
    /\ []((pc = "play_ret" /\ ~win) =>
            /\ level \in 1..10 /\ i \in 0..level
            /\ score = C1_PriorLevels(level) + i)
    /\ [][(pc = "detect_ret" /\ result = FALSE) =>
            (pc' = "play_ret" /\ ~win' /\ score' = score /\ level' = level /\ i' = i)]_vars
    /\ [][pc = "play_ret" => pc' = "idle"]_vars

C1_Witness == pc = "play_ret" /\ ~win /\ level = 10 /\ i = 10 /\ score = 109

(* C2: play_game returns won = true exactly when all 65 recognizer invocations
   of levels 1..10 succeeded, the levels being played in the order 1, 2, ...,
   10 (the level moves on by one, and only with all its level + 1 steps done);
   the score is then 115.  won = false is returned only on a recognizer
   timeout. *)
C2_WinIffAll ==
    /\ [](pc = "play_ret" =>
            /\ win <=> steps = 65
            /\ win => (score = 115 /\ cleared = 10 /\ level = 11))
    /\ [][pc \notin {"idle", "play_ret"} =>
            \/ level' = level
            \/ level' = level + 1 /\ level \in 1..10 /\ i = level + 1]_vars
    /\ [][pc = "idle" => (level' = level \/ level' = 1)]_vars
    /\ [][(pc # "play_ret" /\ pc' = "play_ret" /\ ~win') =>
            (pc = "detect_ret" /\ result = FALSE /\ elapsed >= time_limit)]_vars

C2_Witness == pc = "play_ret" /\ win /\ score = 115

\* play_game is running
C8_InPlay == pc \in {"play_level", "play_step", "detect_test", "detect_body", "detect_ret"}

(* C8: throughout a playthrough score = gestures completed + 5 * levels
   completed: a recognizer success adds exactly 1, a completed level exactly
   5, nothing else changes the score; level 2 starts with score 7. *)
C8_ScoreInvariant ==
    /\ [](C8_InPlay =>
            /\ score = steps + 5 * cleared
            /\ cleared = level - 1
            /\ (pc = "play_level" /\ level = 2) => score = 7)
    /\ [][C8_InPlay =>
            /\ score' - score \in {0, 1, 5}
            /\ score' = score + 1 <=> (pc = "detect_ret" /\ result = TRUE)
            /\ score' = score + 5 <=> (pc = "play_step" /\ i = level + 1)
            /\ steps' = steps + 1 <=> (pc = "detect_ret" /\ result = TRUE)
            /\ steps' \in {steps, steps + 1}]_vars

C8_Witness == pc = "play_level" /\ level = 2 /\ score = 7 /\ steps = 2

(* ----------------------- end_screen, called alone --------------------- *)
FileScores == {0, 60, 80, 100}
ScoreIn == {0, 50, 70, 100}
QuadBoard == {<<0, 1>>, <<1, 1>>}

SlotNames == <<(<<"A", "A", "A">>), (<<"B", "B", "B">>), (<<"C", "C", "C">>)>>

\* the lists of at most 3 entries, sorted by score, highest first
StoredLists ==
    UNION {{[k \in 1..n |-> Entry(SlotNames[k], f[k])] :
              f \in {g \in [1..n -> FileScores] :
                        \A k \in 1..(n - 1) : g[k] >= g[k + 1]}} : n \in 0..3}

InitBoardAlone ==
    /\ pc = "idle" /\ InitPins /\ InitDetect /\ InitMenu /\ InitPlay
    /\ scores = <<>> /\ games = 0
    /\ defaults = DEFAULT_SCORES /\ aliased = FALSE
    /\ \/ file \in {[state |-> st, entries |-> <<>>] : st \in {"missing", "corrupt"}}
       \/ file \in {[state |-> "list", entries |-> l] : l \in StoredLists}

CallEnd ==
    /\ pc = "idle"
    /\ games < MaxGames
    /\ \E sc \in ScoreIn, w \in BOOLEAN : EndEnter(sc, w)

BoardWait == \E b \in {0, 1} : EndWait(b)

BoardInitials ==
    /\ \E st \in QuadBoard, b \in {0, 1} : InitialsIter(st, b)
    /\ Abs(encoder_value + EncoderDelta(last_state, last_state')) <= MaxTurn
    /\ UNCHANGED <<playVars, boardVars>>

BoardInsert == EndInsert

BoardShow == \E b \in {0, 1} : ShowScores(b)

\* the caller goes on; the locals are gone
BoardReturn ==
    /\ pc = "end_ret"
    /\ pc' = "idle"
    /\ games' = games + 1
    /\ scores' = <<>> /\ aliased' = FALSE /\ score' = 0 /\ win' = FALSE
    /\ name' = <<"A", "A", "A">> /\ pos' = 0
    /\ UNCHANGED <<encVars, accVars, sw, detVars, ticks, moves, twin, diff, level, seq, i,
                   steps, cleared, file, defaults>>

NextBoard ==
    \/ CallEnd \/ BoardWait \/ BoardInitials \/ BoardInsert \/ BoardShow
    \/ BoardReturn

SpecBoard == InitBoardAlone /\ [][NextBoard]_vars

\* the lowest score held, a list of fewer than 3 entries having its missing
\* slots at score 0
C5_Lowest(list) ==
    IF Len(list) < 3 THEN 0
    ELSE CHOOSE m \in {list[k].score : k \in 1..Len(list)} :
            \A k \in 1..Len(list) : m <= list[k].score

(* C5: the score qualifies, and end_screen asks for initials (and then writes
   the leaderboard), exactly when the score is strictly greater than the
   lowest score held, the missing slots of a list of fewer than 3 entries
   counting as score 0. *)
C5_Qualifies ==
    [][(pc = "end_wait" /\ pc' # "end_wait") =>
        (pc' = "initials_loop" <=> score > C5_Lowest(scores'))]_vars

\* place of entry j of list in the stable sort by score, highest first
C6_Place(list, j) ==
    1 + Cardinality({k \in 1..Len(list) :
            \/ list[k].score > list[j].score
            \/ list[k].score = list[j].score /\ k < j})

(* C6: the insertion yields the first 3 entries of the current entries with
   the new entry appended, sorted by score descending and stably: entries of
   equal score keep their order, the new entry coming after every entry of
   equal score; the list is what is saved. *)
C6_Insert ==
    [][pc = "initials_ret" =>
        LET all == Append(scores, Entry(name, score))
            n == IF Len(all) < 3 THEN Len(all) ELSE 3
        IN  /\ Len(scores') = n
            /\ \A j \in 1..Len(all) :
                   C6_Place(all, j) <= n => scores'[C6_Place(all, j)] = all[j]
            /\ file' = [state |-> "list", entries |-> scores']]_vars

C6_Witness ==
    /\ pc = "show_scores" /\ score = 70 /\ Len(scores) = 3
    /\ scores[1] = Entry(<<"A", "A", "A">>, 100)
    /\ scores[2] = Entry(<<"B", "B", "B">>, 80)
    /\ scores[3] = Entry(<<"B", "A", "B">>, 70)
    /\ file.entries = scores

C7_Sorted3(list) ==
    /\ Len(list) <= 3
    /\ \A k \in 1..(Len(list) - 1) : list[k].score >= list[k + 1].score

(* C7: starting from a missing file or a stored list of at most 3 entries
   sorted by score, the leaderboard held by end_screen and the one persisted
   never have more than 3 entries and are sorted, highest score first. *)
C7_BoardInvariant ==
    /\ file.state = "list" => C7_Sorted3(file.entries)
    /\ pc \in {"initials_loop", "initials_ret", "show_scores", "end_ret"}
          => C7_Sorted3(scores)

C7_Witness ==
    /\ pc = "end_ret" /\ file.state = "list" /\ Len(file.entries) = 3
    /\ file.entries[1].score = 100 /\ file.entries[2].score = 100
    /\ file.entries[2].name = <<"A", "B", "A">>

(* --------------------------- the whole program ------------------------ *)
\* lines 597-603.  Inputs: the knob is turned in the difficulty menu only (by
\* at most MaxTurn ticks), the device lies at rest, the button is pressed or
\* not; MaxGames playthroughs are started.
QuadStill == {<<1, 1>>}

Init ==
    /\ pc = "splash" /\ InitPins /\ InitDetect /\ InitMenu /\ InitPlay /\ InitBoard

\* splash_screen()
Splash ==
    /\ pc = "splash"
    /\ pc' = "main"
    /\ UNCHANGED <<encVars, accVars, sw, detVars, ticks, moves, twin, menuVars, playVars,
                   boardVars>>

\* while True: diff = choose_difficulty()
MainChoose ==
    /\ pc = "main"
    /\ ChooseEnter
    /\ UNCHANGED <<playVars, boardVars>>

MainChooseIter ==
    /\ \E st \in QuadBoard, b \in {0, 1} : ChooseIter(st, b)
    /\ Abs(encoder_value') <= MaxTurn
    /\ UNCHANGED <<playVars, boardVars>>

\* score, win = play_game(diff)
MainPlay ==
    /\ pc = "choose_ret"
    /\ games < MaxGames
    /\ PlayEnter(diff)
    /\ UNCHANGED boardVars

MainLevel ==
    /\ \E rnd \in RandomRuns : PlayLevel(rnd)
    /\ UNCHANGED boardVars

MainStep == PlayStep /\ UNCHANGED boardVars

MainTest ==
    /\ \E adv \in 0..MaxAdv : DetectTest(adv)
    /\ UNCHANGED <<menuVars, playVars, boardVars, twin>>

MainPoll ==
    /\ \E st \in QuadStill, raw \in AccelRest, b \in {0, 1} : DetectPoll(st, raw, b)
    /\ UNCHANGED <<menuVars, playVars, boardVars, twin>>

MainAfterDetect == PlayAfterDetect /\ UNCHANGED boardVars

\* faulty variant: end_screen is given a fresh result
MainEndFresh ==
    /\ pc = "play_ret"
    /\ EndEnter(0, FALSE)

\* end_screen(score, win)
MainEnd ==
    /\ pc = "play_ret"
    /\ EndEnter(score, win)

MainWait == \E b \in {0, 1} : EndWait(b)

MainInitials ==
    /\ \E st \in QuadStill, b \in {0, 1} : InitialsIter(st, b)
    /\ UNCHANGED <<playVars, boardVars>>

MainInsert == EndInsert

MainShow == \E b \in {0, 1} : ShowScores(b)

\* end_screen has returned: the loop starts again
MainAgain ==
    /\ pc = "end_ret"
    /\ pc' = "main"
    /\ games' = games + 1
    /\ scores' = <<>> /\ aliased' = FALSE
    /\ name' = <<"A", "A", "A">> /\ pos' = 0
    /\ level' = 0 /\ seq' = <<>> /\ i' = 0 /\ score' = 0 /\ win' = FALSE
    /\ steps' = 0 /\ cleared' = 0
    /\ UNCHANGED <<encVars, accVars, sw, detVars, ticks, moves, twin, diff, file, defaults>>

Next ==
    \/ Splash \/ MainChoose \/ MainChooseIter
    \/ MainPlay \/ MainLevel \/ MainStep \/ MainTest \/ MainPoll \/ MainAfterDetect
    \/ MainEnd \/ MainWait \/ MainInitials \/ MainInsert \/ MainShow
    \/ MainAgain

Spec == Init /\ [][Next]_vars

\* the clock moves on between two readings of one detect_action
ClockAdvances ==
    /\ \E adv \in 1..MaxAdv : DetectTest(adv)
    /\ UNCHANGED <<menuVars, playVars, boardVars, twin>>

\* the clock advances and every sample read returns
SpecInputLive ==
    SpecInput /\ SF_vars(ClockAdvances) /\ WF_vars(InputTest) /\ WF_vars(InputPoll)

(* C9: every detect_action ends: the loop is left at the first loop test that
   finds elapsed >= deadline, and, the clock advancing, an invocation in
   progress always comes to its return. *)
C9_Terminates ==
    /\ [][(pc = "detect_test" /\ elapsed' >= time_limit) => pc' = "detect_ret"]_vars
    /\ (pc \in {"detect_test", "detect_body"}) ~> (pc = "detect_ret")

C9_Witness ==
    pc = "detect_ret" /\ result = FALSE /\ polled /\ action = "TAIL_LEFT"
    /\ encoder_value = -2

(* C10: the counter is 0 when detect_action starts, when choose_difficulty
   starts and when each letter of enter_initials starts; a TAIL_RIGHT
   (TAIL_LEFT) success has at least 3 net clockwise (counter-clockwise) ticks
   decoded within the invocation. *)
C10_ResetAtStart ==
    /\ [][/\ (pc \notin {"detect_test", "detect_body"} /\ pc' = "detect_test")
               => encoder_value' = 0
          /\ (pc # "choose_loop" /\ pc' = "choose_loop") => encoder_value' = 0
          /\ (pc # "initials_loop" /\ pc' = "initials_loop") => encoder_value' = 0
          /\ (pc = "initials_loop" /\ pos' # pos) => encoder_value' = 0]_vars
    /\ []((pc = "detect_ret" /\ result = TRUE) =>
            /\ action = "TAIL_RIGHT" => ticks >= 3
            /\ action = "TAIL_LEFT" => ticks <= -3)

C10_Witness ==
    pc = "detect_ret" /\ result = TRUE /\ action = "TAIL_RIGHT" /\ ticks = 3

(* --------------------- generate_sequence, called alone ---------------- *)
\* the random source: any indices for the first MaxFree draws, which then
\* repeat with period MaxFree
SeqRuns ==
    {[k \in 1..(NumLevels + 1) |-> f[((k - 1) % MaxFree) + 1]] :
        f \in [1..MaxFree -> 0..(Len(Actions) - 1)]}

\* seq = generate_sequence(lvl) for any level of range(1, 11)
CallGenerate ==
    /\ pc = "idle"
    /\ \E lvl \in 1..NumLevels, rnd \in SeqRuns :
          /\ level' = lvl
          /\ seq' = generate_sequence(lvl, rnd)
    /\ pc' = "seq_ret"
    /\ UNCHANGED <<encVars, accVars, sw, detVars, ticks, moves, twin, menuVars, i, score,
                   win, steps, cleared, boardVars>>

\* the caller has taken the sequence
SeqReturn ==
    /\ pc = "seq_ret"
    /\ pc' = "idle"
    /\ level' = 0 /\ seq' = <<>>
    /\ UNCHANGED <<encVars, accVars, sw, detVars, ticks, moves, twin, menuVars, i, score,
                   win, steps, cleared, boardVars>>

NextSeq == CallGenerate \/ SeqReturn

SpecSeq == InitInput /\ [][NextSeq]_vars

(* C11: for every level in 1..10, whatever indices the random source gives,
   generate_sequence(level) returns a sequence of exactly level + 1 elements,
   each one of the five gestures (repeats are allowed). *)
C11_Sequence ==
    pc = "seq_ret" =>
        /\ level \in 1..10
        /\ Len(seq) = level + 1
        /\ \A k \in 1..Len(seq) :
              seq[k] \in {"PAW", "TAIL_LEFT", "TAIL_RIGHT", "SHAKE", "FLIP"}

\* level 10: 11 gestures, the first two equal, all five gestures drawn
C11_Witness ==
    /\ pc = "seq_ret" /\ level = 10 /\ Len(seq) = 11
    /\ seq[1] = "FLIP" /\ seq[2] = "FLIP" /\ seq[3] = "PAW"

(* ------------------------------ deadlines ----------------------------- *)
\* base * 0.92 ** level in whole microseconds, levels 1..10
C12_Exact(d) ==
    IF d = "EASY"
    THEN <<1840000, 1692800, 1557376, 1432785, 1318163, 1212710, 1115693,
           1026437, 944322, 868776>>
    ELSE IF d = "MEDIUM"
    THEN <<1380000, 1269600, 1168032, 1074589, 988622, 909532, 836769, 769828,
           708242, 651582>>
    ELSE <<920000, 846400, 778688, 716392, 659081, 606355, 557846, 513218,
           472161, 434388>>

(* C12: the deadline play_game passes to detect_action is base * 0.92 ** level
   (to within the rounding of the fixed-point product, under 1 microsecond
   per factor), base being 2.0 s, 1.5 s, 1.0 s for EASY, MEDIUM, HARD; it is
   the same at every step of a level, and strictly smaller at level l + 1 than
   at level l for l in 1..9. *)
C12_Deadline ==
    /\ [][(pc = "play_step" /\ pc' = "detect_test") =>
            /\ level \in 1..10 /\ i \in 0..level
            /\ Abs(time_limit' - C12_Exact(diff)[level]) <= level
            /\ time_limit' = TimeLimit(diff, level)]_vars
    /\ [](\A d \in {"EASY", "MEDIUM", "HARD"} : \A l \in 1..9 :
            TimeLimit(d, l + 1) < TimeLimit(d, l))
    /\ [][(pc \in {"detect_test", "detect_body"}) => time_limit' = time_limit]_vars

\* the last step of level 10 of a HARD playthrough is being waited for
C12_Witness ==
    /\ pc = "detect_body" /\ diff = "HARD" /\ level = 10 /\ i = 10
    /\ time_limit = 434385

(* ------------- end_screen, playthrough after playthrough --------------- *)
StoreScores == {0, 50, 70}

\* the store cannot be read (missing, not JSON) or holds JSON of another shape
Unreadable == {[state |-> st, entries |-> <<>>] : st \in {"missing", "corrupt", "other"}}

InitStore ==
    /\ pc = "idle" /\ InitPins /\ InitDetect /\ InitMenu /\ InitPlay
    /\ scores = <<>> /\ games = 0
    /\ defaults = DEFAULT_SCORES /\ aliased = FALSE
    /\ file \in Unreadable

\* end_screen(sc, w) at the end of one more playthrough
CallStore ==
    /\ pc = "idle"
    /\ games < MaxLoads
    /\ \E sc \in StoreScores, w \in BOOLEAN : EndEnter(sc, w)

\* between two playthroughs the file is removed or overwritten from outside
StoreLost ==
    /\ pc = "idle"
    /\ games > 0
    /\ file.state = "list"
    /\ file' \in Unreadable
    /\ UNCHANGED <<pc, encVars, accVars, sw, detVars, ticks, moves, twin, menuVars, playVars,
                   scores, games, defaults, aliased>>

NextStore ==
    \/ CallStore \/ BoardWait \/ BoardInitials \/ BoardInsert \/ BoardShow
    \/ BoardReturn \/ StoreLost

SpecStore == InitStore /\ [][NextStore]_vars

\* the three placeholder entries
C13_Placeholders ==
    << [name |-> <<"A", "A", "A">>, score |-> 0],
       [name |-> <<"B", "B", "B">>, score |-> 0],
       [name |-> <<"C", "C", "C">>, score |-> 0] >>

\* the part of C13 for a store that is missing or is not JSON, and for the
\* defaults themselves
C13_Unparsable ==
    /\ [][(pc = "end_wait" /\ pc' # "end_wait" /\ file.state \in {"missing", "corrupt"}) =>
            (scores' = C13_Placeholders /\ pc' # "crashed")]_vars
    /\ [](defaults = C13_Placeholders)

(* C13: whenever the store is missing or its content is malformed (not JSON,
   or JSON that is not a list of entries), load_highscores yields exactly the
   three zero-score placeholder entries and end_screen goes on without an
   error, at the first playthrough and at every later one; DEFAULT_SCORES is
   never modified. *)
C13_Fallback ==
    /\ C13_Unparsable
    /\ [][(pc = "end_wait" /\ pc' # "end_wait" /\ file.state = "other") =>
            (scores' = C13_Placeholders /\ pc' # "crashed")]_vars

\* the second playthrough falls back to the defaults after the first one has
\* appended to and re-sorted its copy
C13_Witness ==
    /\ pc = "show_scores" /\ games = 1 /\ file.state = "corrupt"
    /\ scores = C13_Placeholders

(* ------------------------------ main loop ----------------------------- *)
\* the operation of the main program that is running
C14_Phase(p) ==
    CASE p = "splash" -> "splash"
      [] p = "main" -> "head"
      [] p \in {"choose_loop", "choose_ret"} -> "choose"
      [] p \in {"play_level", "play_step", "detect_test", "detect_body",
                "detect_ret", "play_ret"} -> "play"
      [] OTHER -> "end"

(* C14: the program is one loop: splash once at the start, then again and
   again choose_difficulty, play_game, end_screen.  A playthrough starts only
   from a returned difficulty selection, with the difficulty selected; a
   finished playthrough is followed by one end_screen, which receives the
   playthrough's (score, win) and is entered from nowhere else; the next
   selection begins only after end_screen has returned. *)
C14_Loop ==
    /\ pc = "splash"
    /\ [][C14_Phase(pc') # C14_Phase(pc) =>
            <<C14_Phase(pc), C14_Phase(pc')>> \in
                {<<"splash", "head">>, <<"head", "choose">>, <<"choose", "play">>,
                 <<"play", "end">>, <<"end", "head">>}]_vars
    /\ [][(pc' = "play_level" /\ C14_Phase(pc) # "play") =>
            (pc = "choose_ret" /\ diff' = diff /\ score' = 0)]_vars
    /\ [][(C14_Phase(pc) = "play" /\ C14_Phase(pc') # "play") =>
            (pc = "play_ret" /\ pc' = "end_wait" /\ score' = score /\ win' = win)]_vars
    /\ [][pc' = "end_wait" => pc \in {"end_wait", "play_ret"}]_vars
    /\ [][(C14_Phase(pc) = "end" /\ pc' = "main") =>
            (pc = "end_ret" /\ games' = games + 1)]_vars
    /\ [][(pc' = "choose_loop" /\ pc # "choose_loop") => pc = "main"]_vars

\* the second selection, after a won playthrough whose score was entered
C14_Witness ==
    /\ pc = "choose_ret" /\ games = 1 /\ diff = "MEDIUM"
    /\ file.state = "list" /\ file.entries[1].score = 115

(* ------------------------------- filter ------------------------------- *)
\* one update took the filtered value from f to f2 with the raw sample v: f2
\* lies between f and v, and f2 - v is 0.8 * (f - v) rounded down to the
\* fixed-point grid
C15_Toward(f, f2, v) ==
    LET t == v * FilterScale
    IN  /\ f <= t => (f <= f2 /\ f2 <= t)
        /\ f >= t => (t <= f2 /\ f2 <= f)
        /\ 10 * (f2 - t) <= 8 * (f - t)
        /\ 10 * (f2 - t) > 8 * (f - t) - 10

(* C15: at every update each axis's filtered value moves toward the raw
   sample v without crossing it, and its distance from v becomes 0.8 times
   what it was (alpha = 0.2), to within the fixed-point rounding; fed a
   constant v, the value therefore approaches v monotonically, the distance
   shrinking by 0.8 per update. *)
C15_Converges ==
    [][pc = "detect_body" =>
        /\ C15_Toward(fx, fx', xyz'[1])
        /\ C15_Toward(fy, fy', xyz'[2])
        /\ C15_Toward(fz, fz', xyz'[3])]_vars

\* three updates with the constant sample <<20, 10, 10>>: 0.488 of it
C15_Witness ==
    /\ pc = "detect_test" /\ xyz = <<20, 10, 10>> /\ moves = 3
    /\ fx = 6100 /\ fy = 3050 /\ fz = 3050

(* ---------------- the whole program, the device being moved ------------ *)
\* the knob is not turned and, during play, the button is held down; the
\* random source gives one gesture throughout a level; the device is shaken
\* at the first MaxMoves reads of the accelerometer and rests from then on
\* (the filtered values decay over the later reads); a playthrough may start
\* after MaxGames others
AccelShaken == {<<80, 20, 0>>}

\* all PAW, or all SHAKE
ConstantRuns == {[k \in 1..(NumLevels + 1) |-> g] : g \in {0, 3}}

MotionChooseIter ==
    /\ \E st \in QuadStill, b \in {0, 1} : ChooseIter(st, b)
    /\ UNCHANGED <<playVars, boardVars>>

MotionPlay ==
    /\ pc = "choose_ret"
    /\ games <= MaxGames
    /\ PlayEnter(diff)
    /\ UNCHANGED boardVars

MotionLevel ==
    /\ \E rnd \in ConstantRuns : PlayLevel(rnd)
    /\ UNCHANGED boardVars

MotionPoll ==
    /\ \E st \in QuadStill, b \in {0},
          raw \in (IF moves < MaxMoves THEN AccelShaken ELSE AccelRest) :
             DetectPoll(st, raw, b)
    /\ UNCHANGED <<menuVars, playVars, boardVars, twin>>

NextMotion ==
    \/ Splash \/ MainChoose \/ MotionChooseIter
    \/ MotionPlay \/ MotionLevel \/ MainStep \/ MainTest \/ MotionPoll \/ MainAfterDetect
    \/ MainEnd \/ MainWait \/ MainInitials \/ MainInsert \/ MainShow
    \/ MainAgain

SpecMotion == Init /\ [][NextMotion]_vars

(* C17: fx, fy, fz are changed only by read_accel, that is, in a poll of
   detect_action: starting an attempt, resetting the counter, finishing a
   step or a level, ending a playthrough and starting the next one leave them
   as they are, so the first poll of an attempt filters from the value the
   previous attempt left. *)
C17_Frame ==
    /\ [][(fx' # fx \/ fy' # fy \/ fz' # fz) =>
            (pc = "detect_body" /\ polled' /\ pc' \in {"detect_test", "detect_ret"})]_vars
    /\ [][(\/ pc' = "detect_test" /\ pc # "detect_body"
           \/ encoder_value' = 0 /\ pc # "detect_body"
           \/ pc \in {"detect_ret", "play_step", "play_level", "play_ret", "end_ret",
                      "main", "choose_ret"})
            => (fx' = fx /\ fy' = fy /\ fz' = fz)]_vars
    /\ [][(pc = "detect_body" /\ ~polled) =>
            (fx' = Ema(xyz'[1], fx) /\ fy' = Ema(xyz'[2], fy) /\ fz' = Ema(xyz'[3], fz))]_vars

\* the second playthrough waits for its first gesture, the filter holding
\* what the first playthrough left
C17_Witness ==
    /\ pc = "detect_test" /\ games = 1 /\ level = 1 /\ i = 0 /\ ~polled
    /\ fx > 0 /\ fy > 0 /\ xyz = <<0, 0, 0>>

(* ------------------- the waits, each operation alone ------------------ *)
\* detect_action, choose_difficulty and end_screen (with its enter_initials
\* and show_highscores) are called from the module's initial state; the knob
\* is not turned, the device is at rest, the button is pressed or not
WaitsPoll ==
    /\ \E st \in QuadStill, raw \in AccelRest, b \in {0, 1} : DetectPoll(st, raw, b)
    /\ UNCHANGED <<menuVars, playVars, boardVars, twin>>

WaitsChoose ==
    /\ \E st \in QuadStill, b \in {0, 1} : ChooseIter(st, b)
    /\ UNCHANGED <<playVars, boardVars>>

WaitsInitials ==
    /\ \E st \in QuadStill, b \in {0, 1} : InitialsIter(st, b)
    /\ UNCHANGED <<playVars, boardVars>>

WaitsReturn ==
    /\ pc \in {"detect_ret", "choose_ret"}
    /\ pc' = "idle"
    /\ LocalsGone
    /\ UNCHANGED <<encVars, accVars, sw, ticks, moves, twin, playVars, boardVars>>

NextWaits ==
    \/ CallDetect \/ InputTest \/ WaitsPoll
    \/ CallChoose \/ WaitsChoose
    \/ CallEnd \/ BoardWait \/ WaitsInitials \/ BoardInsert \/ BoardShow \/ BoardReturn
    \/ WaitsReturn

SpecWaits == InitInput /\ [][NextWaits]_vars

\* the program runs on: the clock advances, every sample read returns, every
\* statement that waits for nothing is executed.  Nothing makes the player
\* press the button or turn the knob.
SpecWaitsLive ==
    /\ SpecWaits
    /\ SF_vars(ClockAdvances) /\ WF_vars(InputTest) /\ WF_vars(WaitsPoll)
    /\ WF_vars(BoardInsert) /\ WF_vars(WaitsReturn) /\ WF_vars(BoardReturn)

(* C16 as stated: every wait of the program (difficulty selection, result
   screen, initials entry, high-score screen, gesture detection) comes to its
   end whatever the inputs do. *)
C16_AllWaitsEnd ==
    /\ (pc \in {"detect_test", "detect_body"}) ~> (pc = "detect_ret")
    /\ (pc = "choose_loop") ~> (pc = "choose_ret")
    /\ (pc = "end_wait") ~> (pc # "end_wait")
    /\ (pc = "initials_loop") ~> (pc = "initials_ret")
    /\ (pc = "show_scores") ~> (pc = "end_ret")

(* C16 amended: only detect_action is bounded by the deadline: no poll starts
   with the deadline elapsed and every invocation returns.  The difficulty
   selection, the result screen, each letter of the initials entry and the
   high-score screen end only at an iteration that reads the button
   pressed. *)
C16_OnlyDetectBounded ==
    /\ [](pc = "detect_body" => elapsed < time_limit)
    /\ (pc \in {"detect_test", "detect_body"}) ~> (pc = "detect_ret")
    /\ [][(pc = "choose_loop" /\ pc' # "choose_loop") => sw' = 0]_vars
    /\ [][(pc = "end_wait" /\ pc' # "end_wait") => sw' = 0]_vars
    /\ [][(pc = "initials_loop" /\ (pc' # "initials_loop" \/ pos' # pos)) => sw' = 0]_vars
    /\ [][(pc = "show_scores" /\ pc' # "show_scores") => sw' = 0]_vars

\* the high-score screen is up, the button not pressed at the last reading
C16_Witness ==
    /\ pc = "show_scores" /\ sw = 1 /\ score = 50 /\ Len(scores) = 3
    /\ scores[1].score = 50

(* C18: after any sequence of updates each filtered value lies between the
   least and the greatest raw sample read so far on its axis, the initial 0
   included (no overshoot); hence at a SHAKE success some raw x with |x| > 15
   has been read, and at a FLIP success some raw z < -5, in this attempt or
   in an earlier one. *)
C18_NoOvershoot ==
    /\ seen_lo[1] * FilterScale <= fx /\ fx <= seen_hi[1] * FilterScale
    /\ seen_lo[2] * FilterScale <= fy /\ fy <= seen_hi[2] * FilterScale
    /\ seen_lo[3] * FilterScale <= fz /\ fz <= seen_hi[3] * FilterScale
    /\ (pc = "detect_ret" /\ result = TRUE /\ action = "SHAKE") =>
          (seen_hi[1] > 15 \/ seen_lo[1] < -15)
    /\ (pc = "detect_ret" /\ result = TRUE /\ action = "FLIP") => seen_lo[3] < -5

\* a SHAKE success at the first poll of an attempt, which read the device at
\* rest: the samples above the threshold were read in an earlier attempt
C18_Witness ==
    /\ pc = "detect_ret" /\ result = TRUE /\ action = "SHAKE"
    /\ xyz = <<0, 0, 0>> /\ elapsed = 0 /\ ticks = 0
    /\ seen_lo[1] = 0 /\ seen_hi[1] = 80 /\ fx = 14400

(* ------------------ detect_action, two runs side by side -------------- *)
\* The second run (twin) starts from the state the first starts from, with
\* the same gesture and deadline, and reads the clock as the first does.  At
\* each poll it reads what the first run reads on the input the gesture's
\* test uses; its other inputs are at rest (pins unchanged, no acceleration,
\* button up), while the first run reads any values.  Two runs that agree
\* with this second run agree with each other.
AccelTwin == {<<0, 0, 0>>, <<80, 0, 0>>, <<0, 0, -30>>}

TwinIdle ==
    [pc |-> "idle", encoder_value |-> 0, last_state |-> <<0, 0>>,
     fx |-> 0, fy |-> 0, fz |-> 0, result |-> "none"]

\* what the second run samples when the first samples st, raw, b
TwinPins(act, st) == IF act \in {"TAIL_LEFT", "TAIL_RIGHT"} THEN st ELSE twin.last_state
TwinAccel(act, raw) ==
    <<IF act = "SHAKE" THEN raw[1] ELSE 0, 0, IF act = "FLIP" THEN raw[3] ELSE 0>>
TwinButton(act, b) == IF act = "PAW" THEN b ELSE 1

TwinCall ==
    /\ pc = "idle"
    /\ \E act \in {Actions[k] : k \in 1..Len(Actions)}, limit \in LimitsIn :
          DetectEnter(act, limit)
    /\ twin' = [pc |-> "detect_test",
                encoder_value |-> DetectReset(encoder_value),
                last_state |-> last_state,
                fx |-> FilterAtStart(fx), fy |-> FilterAtStart(fy),
                fz |-> FilterAtStart(fz), result |-> "none"]
    /\ UNCHANGED <<menuVars, playVars, boardVars>>

TwinTest ==
    /\ \E adv \in 0..MaxAdv : DetectTest(adv)
    /\ twin' = IF twin.pc # "detect_test" THEN twin
               ELSE IF LoopContinues(elapsed', time_limit)
                    THEN [twin EXCEPT !.pc = "detect_body"]
                    ELSE [twin EXCEPT !.pc = "detect_ret", !.result = FALSE]
    /\ UNCHANGED <<menuVars, playVars, boardVars>>

\* one poll of the second run: lines 332-359 on its own state
TwinStep(st2, raw2, b2) ==
    LET ev == twin.encoder_value + EncoderDelta(twin.last_state, st2)
        x == Ema(raw2[1], twin.fx)
        y == Ema(raw2[2], twin.fy)
        z == Ema(raw2[3], twin.fz)
        hit == GestureSeen(action, ev, x, z, b2)
    IN  [pc |-> IF hit THEN "detect_ret" ELSE "detect_test",
         encoder_value |-> ev,
         last_state |-> NextLastState(twin.last_state, st2),
         fx |-> x, fy |-> y, fz |-> z,
         result |-> IF hit THEN TRUE ELSE twin.result]

TwinPoll ==
    /\ \E st \in QuadIn, raw \in AccelTwin, b \in {0, 1} :
          /\ DetectPoll(st, raw, b)
          /\ twin' = IF twin.pc = "detect_body"
                     THEN TwinStep(TwinPins(action, st), TwinAccel(action, raw),
                                   TwinButton(action, b))
                     ELSE twin
    /\ moves' <= MaxMoves
    /\ UNCHANGED <<menuVars, playVars, boardVars>>

TwinReturn ==
    /\ pc = "detect_ret"
    /\ pc' = "idle"
    /\ LocalsGone
    /\ twin' = TwinIdle
    /\ UNCHANGED <<encVars, accVars, sw, ticks, moves, playVars, boardVars>>

NextTwin == TwinCall \/ TwinTest \/ TwinPoll \/ TwinReturn

SpecTwin == InitInput /\ [][NextTwin]_vars

(* C19: two runs of detect_action from the same state, for the same gesture
   and deadline, with the same clock readings and the same readings of the
   input the gesture's test uses, go through the loop together and return the
   same result at the same poll, whatever each reads on the other inputs; a
   run fails only with the deadline elapsed. *)
C19_SameResult ==
    /\ twin.pc = pc /\ twin.result = result
    /\ (pc = "detect_ret" /\ result = FALSE) => elapsed >= time_limit

\* PAW is waited for: one run has been shaken and turned, the other not; both
\* succeed at the same poll
C19_Witness ==
    /\ pc = "detect_ret" /\ result = TRUE /\ action = "PAW" /\ twin.result = TRUE
    /\ fx > 15 * FilterScale /\ twin.fx = 0
    /\ encoder_value < -2 /\ twin.encoder_value = 0

\* the leaderboard a store in state f holds for the program
C20_Held(f) == IF f.state = "list" THEN f.entries ELSE C13_Placeholders

(* C20: from the default leaderboard on, and as long as the store is not
   lost from outside, each write of the leaderboard leaves the score at every
   rank at least what it was; the store is written only after an initials
   entry; a playthrough whose score is not strictly greater than the last
   entry's (0 against the defaults, for one) is asked for no initials and
   leaves the store as it is. *)
C20_RanksGrow ==
    /\ [][(file' # file /\ file'.state = "list" /\ file.state # "other") =>
            /\ Len(file'.entries) = 3
            /\ \A k \in 1..3 : file'.entries[k].score >= C20_Held(file)[k].score]_vars
    /\ [][(file' # file /\ file'.state = "list") => pc = "initials_ret"]_vars
    /\ [][(pc = "end_wait" /\ pc' \notin {"end_wait", "crashed"}) =>
            IF score > C20_Held(file)[3].score
            THEN pc' = "initials_loop"
            ELSE pc' = "show_scores" /\ file' = file /\ scores' = C20_Held(file)]_vars
    /\ [][pc = "show_scores" => (file' = file /\ pc' \in {"show_scores", "end_ret"})]_vars

\* the second playthrough scored 50, as the first: its entry came in below
\* the first one's, and the defaults moved down
C20_Witness ==
    /\ pc = "end_ret" /\ games = 1 /\ score = 50 /\ file.state = "list"
    /\ file.entries[1].score = 50 /\ file.entries[2].score = 50
    /\ file.entries[3].score = 0

(***************************************************************************)
(* SpecNames: end_screen called once, with a store that cannot be read, so *)
(* that any score above 0 is asked for initials.  The knob may be turned   *)
(* MaxSpin ticks either way from 0 while the first letter is chosen, more  *)
(* than once around the alphabet, and MaxTurn ticks at the other letters.  *)
(***************************************************************************)
MaxSpin == 27

NamesCall ==
    /\ games = 0
    /\ CallEnd

NamesInitials ==
    /\ \E st \in QuadIn, b \in {0, 1} : InitialsIter(st, b)
    /\ Abs(encoder_value + EncoderDelta(last_state, last_state'))
         <= IF pos = 0 THEN MaxSpin ELSE MaxTurn
    /\ UNCHANGED <<playVars, boardVars>>

NextNames ==
    \/ NamesCall \/ BoardWait \/ NamesInitials \/ BoardInsert \/ BoardShow
    \/ BoardReturn

SpecNames == InitInput /\ [][NextNames]_vars

C21_Capitals ==
    {"A", "B", "C", "D", "E", "F", "G", "H", "I", "J", "K", "L", "M",
     "N", "O", "P", "Q", "R", "S", "T", "U", "V", "W", "X", "Y", "Z"}

\* a name of exactly 3 characters, each a capital letter
C21_Valid(n) == Len(n) = 3 /\ \A k \in 1..3 : n[k] \in C21_Capitals

\* the counter update_encoder leaves in the loop pass that is being taken
C21_Counter == encoder_value + EncoderDelta(last_state, last_state')

(* C21: while enter_initials runs, the position is 0, 1 or 2 whenever a
   letter is written, and the name is 3 capital letters; a loop pass writes
   the letter at index abs(counter) mod 26, which is within 0..25 in both
   directions of rotation, at the current position and nowhere else; the
   position advances by one exactly in the passes that read the button
   pressed; the function returns in the pass of the third press, with a name
   of 3 capital letters, and the entry end_screen then adds to the
   leaderboard and writes to the store carries that name. *)
C21_ThreeLetters ==
    /\ [](pc = "initials_loop" => (pos \in 0..2 /\ C21_Valid(name)))
    /\ [](pc = "initials_ret" => (pos = 3 /\ C21_Valid(name)))
    /\ [][pc = "initials_loop" =>
            /\ Abs(C21_Counter) % 26 \in 0..25
            /\ name'[pos + 1] = LETTERS[(Abs(C21_Counter) % 26) + 1]
            /\ \A k \in (1..3) \ {pos + 1} : name'[k] = name[k]
            /\ pos' = IF sw' = 0 THEN pos + 1 ELSE pos
            /\ pc' = IF sw' = 0 /\ pos = 2 THEN "initials_ret" ELSE "initials_loop"]_vars
    /\ [][pc = "initials_ret" =>
            /\ \E k \in 1..Len(scores') : scores'[k] = Entry(name, score)
            /\ \A k \in 1..Len(scores') : C21_Valid(scores'[k].name)
            /\ file'.state = "list" /\ file'.entries = scores']_vars

\* the first letter was chosen 25 ticks away from A, the second one tick
\* away, the third left as it was: the function has returned on the third
\* press and the entry is on the leaderboard and in the store
C21_Witness ==
    /\ pc = "show_scores" /\ score = 70
    /\ name = <<"Z", "B", "A">>
    /\ scores[1] = Entry(<<"Z", "B", "A">>, 70)
    /\ file.state = "list" /\ file.entries = scores

====
